---- MODULE Spec2Model ----
(***************************************************************************)
(* A model of the blueshift escrow program: the account checks and         *)
(* initialisers of helpers.rs and the three instructions Make, Take and    *)
(* Refund, run against a ledger of accounts.  The services the program     *)
(* calls (system program, token program, associated-token-account program) *)
(* are modelled by what their instructions do to the accounts passed in.   *)
(***************************************************************************)
EXTENDS Integers, Sequences, FiniteSets, TLC

VARIABLES
    ledger,   \* address -> account (owner, lamports, data length, data)
    pre,      \* the ledger as it was before the last instruction
    last,     \* the last instruction: its inputs, its result, its calls
    nOk,      \* number of instructions that have succeeded so far
    closed,   \* escrow addresses a successful Take or Refund has decommissioned
    deposit,  \* escrow address -> amount of the latest successful Make there
    payouts,  \* escrow address -> successful Takes and Refunds since that Make
    written,  \* escrow address -> the record the Make that opened it was given
    checked   \* an account view and what each check contract returns on it

vars == <<ledger, pre, last, nOk, closed, deposit, payouts, written, checked>>

----
\* Bounds of the model.
MaxAmount == 2      \* token amounts in payloads and initial balances
MaxSeed == 1        \* escrow seeds are 1..MaxSeed
MaxOps == 3         \* successful instructions per behaviour

----
\* Program ids.
SystemID == 0
TokenID == 1
TOKEN_2022_PROGRAM_ID == 2
AssociatedTokenID == 3
ID == 4

\* Fixed record sizes.
MintLEN == 82
TokenAccountLEN == 165
EscrowLEN == 113
TOKEN_2022_ACCOUNT_DISCRIMINATOR_OFFSET == 165
TOKEN2022_MINT_DISCRIMINATOR == 1
TOKEN_2022_TOKEN_ACCOUNT_DISCRIMINATOR == 2

OK == "Ok"

\* The addresses of the model: two wallets, two classic mints, a key pair a
\* caller has generated, and the derived addresses.
Wallets == {11, 12}
Mints == {21, 22}
Seeds == 1..MaxSeed
Amounts == 0..MaxAmount

\* Address::find_program_address / create_program_address over
\* ("escrow", maker, seed.to_le_bytes()) under crate::ID.  The hash is modelled
\* as an injective function; the seed stands for its 8-byte encoding.
Pda(maker, seed) == 100 + 10 * (maker - 10) + seed
CanonBump(maker, seed) == 255 - ((maker + seed) % 2)
FindProgramAddress(maker, seed) ==
    [addr |-> Pda(maker, seed), bump |-> CanonBump(maker, seed)]
\* With the canonical bump the result is the canonical address; every bump
\* above it lies on the curve (find skipped it: an error); a bump below it
\* may give another valid address, which is never the canonical one of any
\* (maker, seed).
CreateProgramAddress(maker, seed, bump) ==
    IF bump = CanonBump(maker, seed)
    THEN [err |-> OK, addr |-> Pda(maker, seed)]
    ELSE IF bump > CanonBump(maker, seed)
    THEN [err |-> "InvalidSeeds", addr |-> 0]
    ELSE [err |-> OK, addr |-> 500 + Pda(maker, seed)]

\* The associated token address of (wallet, token program, mint) under the
\* associated-token-account program id.
Ata(wallet, token_program, mint) ==
    10000 + 100 * wallet + 10 * token_program + (mint - 20)

Pdas == {Pda(w, s) : w \in Wallets, s \in Seeds}
\* The address of a key pair a caller has generated: an unused account that
\* can sign a transaction.  A caller may name it wherever an escrow account is
\* expected.
EscrowKeypair == 40
Escrows == Pdas \cup {EscrowKeypair}
Holdings == {Ata(o, TokenID, m) : o \in Wallets \cup Escrows, m \in Mints}
Addresses == Wallets \cup Mints \cup Escrows \cup Holdings

----
\* Accounts.  `rec` is the escrow record held in the data of an escrow
\* account; mint/auth/amount are the fields of a token holding account's
\* data; tag is the data byte at the discriminator offset and at167 the data
\* byte two places further on, at offset 167.  Data of a fresh account is
\* zeroed.
ZeroRec == [seed |-> 0, maker |-> 0, mint_a |-> 0, mint_b |-> 0,
            receive |-> 0, bump |-> 0]
EmptyAccount ==
    [owner |-> SystemID, lamports |-> 0, len |-> 0, tag |-> 0, at167 |-> 0,
     mint |-> 0, auth |-> 0, amount |-> 0, rec |-> ZeroRec]
WalletAccount(lamports) == [EmptyAccount EXCEPT !.lamports = lamports]
MintRecord == [EmptyAccount EXCEPT !.owner = TokenID, !.len = MintLEN,
                                   !.lamports = (128 + MintLEN) * 6960]

View(led, a) == IF a \in DOMAIN led THEN led[a] ELSE EmptyAccount

\* Rent::try_minimum_balance(space)
MinimumBalance(space) == (128 + space) * 6960

----
\* helpers.rs: the check contracts.  Each returns OK or the error's name.
SignerAccountCheck(signers, a) ==
    IF a \notin signers THEN "MissingRequiredSignature" ELSE OK

SystemAccountCheck(acc) ==
    IF acc.owner # SystemID THEN "IllegalOwner" ELSE OK

MintAccountCheck(acc) ==
    IF acc.owner # TokenID THEN "IllegalOwner"
    ELSE IF acc.len # MintLEN THEN "InvalidAccountData"
    ELSE OK

TokenAccountCheck(acc) ==
    IF acc.owner # TokenID THEN "IllegalOwner"
    ELSE IF acc.len # TokenAccountLEN THEN "InvalidAccountData"
    ELSE OK

\* The extended mint check reading its tag two bytes further on.
Mint2022AccountCheckAt167(acc) ==
    IF acc.owner # TOKEN_2022_PROGRAM_ID THEN "IllegalOwner"
    ELSE IF acc.len # MintLEN
         THEN IF acc.len <= 167
              THEN "InvalidAccountData"
              ELSE IF acc.at167 # TOKEN2022_MINT_DISCRIMINATOR
                   THEN "InvalidAccountData"
                   ELSE OK
         ELSE OK

Mint2022AccountCheck(acc) ==
    IF acc.owner # TOKEN_2022_PROGRAM_ID THEN "IllegalOwner"
    ELSE IF acc.len # MintLEN
         THEN IF acc.len <= TOKEN_2022_ACCOUNT_DISCRIMINATOR_OFFSET
              THEN "InvalidAccountData"
              ELSE IF acc.tag # TOKEN2022_MINT_DISCRIMINATOR
                   THEN "InvalidAccountData"
                   ELSE OK
         ELSE OK

TokenAccount2022AccountCheck(acc) ==
    IF acc.owner # TOKEN_2022_PROGRAM_ID THEN "IllegalOwner"
    ELSE IF acc.len # TokenAccountLEN
         THEN IF acc.len <= TOKEN_2022_ACCOUNT_DISCRIMINATOR_OFFSET
              THEN "InvalidAccountData"
              ELSE IF acc.tag # TOKEN_2022_TOKEN_ACCOUNT_DISCRIMINATOR
                   THEN "InvalidAccountData"
                   ELSE OK
         ELSE OK

MintInterfaceCheck(acc) ==
    LET is_token_2022 == acc.owner = TOKEN_2022_PROGRAM_ID
        is_spl_token == acc.owner = TokenID
    IN IF ~is_token_2022 /\ ~is_spl_token THEN "IllegalOwner"
       ELSE IF is_spl_token
            THEN IF acc.len # MintLEN THEN "InvalidAccountData" ELSE OK
            ELSE IF acc.len <= TOKEN_2022_ACCOUNT_DISCRIMINATOR_OFFSET
                 THEN "InvalidAccountData"
                 ELSE IF acc.tag # TOKEN2022_MINT_DISCRIMINATOR
                      THEN "InvalidAccountData"
                      ELSE OK

TokenAccountInterfaceCheck(acc) ==
    LET is_owned_by_token_2022 == acc.owner = TOKEN_2022_PROGRAM_ID
        is_owned_by_spl_token == acc.owner = TokenID
    IN IF ~is_owned_by_spl_token /\ ~is_owned_by_token_2022 THEN "IllegalOwner"
       ELSE IF is_owned_by_spl_token
            THEN IF acc.len # TokenAccountLEN THEN "InvalidAccountData" ELSE OK
            ELSE IF acc.len <= TOKEN_2022_ACCOUNT_DISCRIMINATOR_OFFSET
                 THEN "InvalidAccountData"
                 ELSE IF acc.tag # TOKEN_2022_TOKEN_ACCOUNT_DISCRIMINATOR
                      THEN "InvalidAccountData"
                      ELSE OK

\* The check without the comparison of addresses.
AssociatedTokenAccountCheckAnyAddress(led, account, authority, mint, token_program) ==
    TokenAccountCheck(View(led, account))

AssociatedTokenAccountCheck(led, account, authority, mint, token_program) ==
    LET r == TokenAccountCheck(View(led, account))
    IN IF r # OK THEN r
       ELSE IF Ata(authority, token_program, mint) # account
            THEN "InvalidArgument"
            ELSE OK

ProgramAccountCheck(acc) ==
    IF acc.owner # ID THEN "InvalidAccountOwner"
    ELSE IF acc.len # EscrowLEN THEN "InvalidAccountData"
    ELSE OK

----
\* An instruction in progress: the working ledger, the first error (OK while
\* none), the state-changing calls performed so far, in order, and the
\* addresses of the account list the instruction was given.
Start(led, accounts) ==
    [led |-> led, err |-> OK, log |-> <<>>,
     keys |-> {accounts[i] : i \in DOMAIN accounts}]
Fail(s, e) == [s EXCEPT !.err = e]
Done(s, led, what) == [s EXCEPT !.led = led, !.log = Append(s.log, what)]

\* The `?` of the code: what follows runs on the outcome of what came before
\* only when that returned Ok; an error is handed on as it is.
Then(s, Rest(_)) ==
    CHOOSE r \in {IF x.err # OK THEN x ELSE Rest(x) : x \in {s}} : TRUE

\* A program can call another program only when the called program's account
\* is in the account list the calling instruction was given; the call fails
\* with MissingAccount otherwise, before the called program runs.

\* System program, CreateAccount: `from` and `to` must sign, `to` must be an
\* unused system account, `from` pays the lamports.
SystemCreateAccount(s, from, to, lamports, space, owner, signers, what) ==
    LET f == View(s.led, from)
        t == View(s.led, to)
    IN IF SystemID \notin s.keys THEN Fail(s, "MissingAccount")
       ELSE IF from \notin signers \/ to \notin signers
       THEN Fail(s, "MissingRequiredSignature")
       ELSE IF t.lamports > 0 \/ t.len # 0 \/ t.owner # SystemID
       THEN Fail(s, "AccountAlreadyInUse")
       ELSE IF f.lamports < lamports \/ to \notin DOMAIN s.led
       THEN Fail(s, "InsufficientFunds")
       ELSE Done(s, [s.led EXCEPT
                       ![from].lamports = f.lamports - lamports,
                       ![to] = [EmptyAccount EXCEPT !.owner = owner,
                                                    !.lamports = lamports,
                                                    !.len = space]],
                 what)

\* The creation skipped for an account the program owns already.
CreateAccountIfNeeded(s, account, space, owner, payer, signers, what) ==
    LET lamports == MinimumBalance(space)
        t == View(s.led, account)
        f == View(s.led, payer)
        required == IF lamports > t.lamports THEN lamports - t.lamports ELSE 0
    IN IF t.owner = owner THEN s
       ELSE IF SystemID \notin s.keys THEN Fail(s, "MissingAccount")
       ELSE IF t.lamports = 0
       THEN SystemCreateAccount(s, payer, account, lamports, space, owner, signers, what)
       ELSE IF required > 0 /\ (payer \notin signers \/ f.lamports < required)
       THEN Fail(s, "InsufficientFunds")
       ELSE IF account \notin signers
       THEN Fail(s, "MissingRequiredSignature")
       ELSE IF t.len # 0 \/ t.owner # SystemID
       THEN Fail(s, "AccountAlreadyInUse")
       ELSE Done(s, [s.led EXCEPT
                       ![payer].lamports = f.lamports - required,
                       ![account] = [EmptyAccount EXCEPT !.owner = owner,
                                       !.lamports = t.lamports + required,
                                       !.len = space]],
                 what)

\* pinocchio_system::create_account_with_minimum_balance_signed: a plain
\* CreateAccount when the account holds no lamports; otherwise top up to the
\* rent-exempt minimum, Allocate and Assign.
CreateAccountWithMinimumBalanceSigned(s, account, space, owner, payer, signers, what) ==
    LET lamports == MinimumBalance(space)
        t == View(s.led, account)
        f == View(s.led, payer)
        required == IF lamports > t.lamports THEN lamports - t.lamports ELSE 0
    IN IF SystemID \notin s.keys THEN Fail(s, "MissingAccount")
       ELSE IF t.lamports = 0
       THEN SystemCreateAccount(s, payer, account, lamports, space, owner, signers, what)
       ELSE IF required > 0 /\ (payer \notin signers \/ f.lamports < required)
       THEN Fail(s, "InsufficientFunds")
       ELSE IF account \notin signers
       THEN Fail(s, "MissingRequiredSignature")
       ELSE IF t.len # 0 \/ t.owner # SystemID
       THEN Fail(s, "AccountAlreadyInUse")
       ELSE Done(s, [s.led EXCEPT
                       ![payer].lamports = f.lamports - required,
                       ![account] = [EmptyAccount EXCEPT !.owner = owner,
                                       !.lamports = t.lamports + required,
                                       !.len = space]],
                 what)

\* Associated-token-account program, Create (not the idempotent variant): the
\* account must be the associated address of (wallet, token program, mint) and
\* must not exist yet; the mint must belong to the token program.
AtaCreate(s, funding_account, account, wallet, mint, token_program, signers, what) ==
    LET f == View(s.led, funding_account)
        t == View(s.led, account)
        m == View(s.led, mint)
        lamports == MinimumBalance(TokenAccountLEN)
        required == IF lamports > t.lamports THEN lamports - t.lamports ELSE 0
    IN IF AssociatedTokenID \notin s.keys \/ SystemID \notin s.keys
          \/ token_program \notin s.keys
       THEN Fail(s, "MissingAccount")
       ELSE IF funding_account \notin signers
       THEN Fail(s, "MissingRequiredSignature")
       ELSE IF account # Ata(wallet, token_program, mint)
       THEN Fail(s, "InvalidSeeds")
       ELSE IF t.owner # SystemID \/ t.len # 0
       THEN Fail(s, "IllegalOwner")
       ELSE IF token_program \notin {TokenID, TOKEN_2022_PROGRAM_ID}
               \/ m.owner # token_program \/ m.len # MintLEN
       THEN Fail(s, "IncorrectProgramId")
       ELSE IF f.lamports < required \/ account \notin DOMAIN s.led
       THEN Fail(s, "InsufficientFunds")
       ELSE Done(s, [s.led EXCEPT
                       ![funding_account].lamports = f.lamports - required,
                       ![account] = [EmptyAccount EXCEPT
                                       !.owner = token_program,
                                       !.lamports = t.lamports + required,
                                       !.len = TokenAccountLEN,
                                       !.mint = mint,
                                       !.auth = wallet]],
                 what)

\* A transfer that credits the receiving account and leaves the sending
\* account's balance as it was.
TokenTransferCreditsOnly(s, from, to, authority, amount, signers, what) ==
    LET f == View(s.led, from)
        t == View(s.led, to)
    IN IF TokenID \notin s.keys THEN Fail(s, "MissingAccount")
       ELSE IF TokenAccountCheck(f) # OK \/ TokenAccountCheck(t) # OK
       THEN Fail(s, "InvalidAccountData")
       ELSE IF f.amount < amount
       THEN Fail(s, "TokenInsufficientFunds")
       ELSE IF f.mint # t.mint
       THEN Fail(s, "TokenMintMismatch")
       ELSE IF f.auth # authority
       THEN Fail(s, "TokenOwnerMismatch")
       ELSE IF authority \notin signers
       THEN Fail(s, "MissingRequiredSignature")
       ELSE IF from = to
       THEN Done(s, s.led, what)
       ELSE Done(s, [s.led EXCEPT ![to].amount = t.amount + amount], what)

\* Token program (classic), Transfer.  A transfer from an account to itself
\* is validated and then changes nothing.
TokenTransfer(s, from, to, authority, amount, signers, what) ==
    LET f == View(s.led, from)
        t == View(s.led, to)
    IN IF TokenID \notin s.keys THEN Fail(s, "MissingAccount")
       ELSE IF TokenAccountCheck(f) # OK \/ TokenAccountCheck(t) # OK
       THEN Fail(s, "InvalidAccountData")
       ELSE IF f.amount < amount
       THEN Fail(s, "TokenInsufficientFunds")
       ELSE IF f.mint # t.mint
       THEN Fail(s, "TokenMintMismatch")
       ELSE IF f.auth # authority
       THEN Fail(s, "TokenOwnerMismatch")
       ELSE IF authority \notin signers
       THEN Fail(s, "MissingRequiredSignature")
       ELSE IF from = to
       THEN Done(s, s.led, what)
       ELSE Done(s, [s.led EXCEPT ![from].amount = f.amount - amount,
                                  ![to].amount = t.amount + amount],
                 what)

\* Token program (classic), CloseAccount: only an empty holding account, by
\* its authority; its lamports go to the destination and the account is
\* handed back to the system program with no data.
TokenCloseAccount(s, account, destination, authority, signers, what) ==
    LET a == View(s.led, account)
        d == View(s.led, destination)
    IN IF TokenID \notin s.keys THEN Fail(s, "MissingAccount")
       ELSE IF TokenAccountCheck(a) # OK \/ account = destination
       THEN Fail(s, "InvalidAccountData")
       ELSE IF a.amount # 0
       THEN Fail(s, "TokenNonNativeHasBalance")
       ELSE IF a.auth # authority
       THEN Fail(s, "TokenOwnerMismatch")
       ELSE IF authority \notin signers
       THEN Fail(s, "MissingRequiredSignature")
       ELSE IF destination \notin DOMAIN s.led
       THEN Fail(s, "InvalidAccountData")
       ELSE Done(s, [s.led EXCEPT ![destination].lamports = d.lamports + a.lamports,
                                  ![account] = EmptyAccount],
                 what)

----
\* state.rs: the escrow record.  load / load_mut accept data of exactly the
\* record's size; set_inner writes the six fields.
EscrowLoad(acc) ==
    IF acc.len # EscrowLEN
    THEN [err |-> "InvalidAccountData", rec |-> ZeroRec]
    ELSE [err |-> OK, rec |-> acc.rec]

EscrowSetInner(seed, maker, mint_a, mint_b, receive, bump) ==
    [seed |-> seed, maker |-> maker, mint_a |-> mint_a, mint_b |-> mint_b,
     receive |-> receive, bump |-> bump]

----
\* helpers.rs: initialisers and the decommission of a program account.
AssociatedTokenAccountInit(s, account, mint, payer, owner, token_program, signers, what) ==
    AtaCreate(s, payer, account, owner, mint, token_program, signers, what)

\* init_if_needed runs the check with the payer in the authority position.
AssociatedTokenAccountInitIfNeeded(s, account, mint, payer, owner, token_program, signers, what) ==
    IF AssociatedTokenAccountCheck(s.led, account, payer, mint, token_program) = OK
    THEN s
    ELSE AssociatedTokenAccountInit(s, account, mint, payer, owner, token_program,
                                    signers, what)

\* The four steps of ProgramAccount::close, in program order.
CloseMarker(s, account) ==
    LET a == View(s.led, account)
    IN IF a.len = 0 \/ account \notin DOMAIN s.led
       THEN Fail(s, "AccountBorrowFailed")
       ELSE Done(s, [s.led EXCEPT ![account].rec.seed =
                                     (a.rec.seed - (a.rec.seed % 256)) + 255],
                 "close:marker")
\* The second step crediting the destination with nothing.
CloseLamportsForgotten(s, account, destination) ==
    IF destination \notin DOMAIN s.led
    THEN Fail(s, "InvalidArgument")
    ELSE Done(s, s.led, "close:lamports")

CloseLamports(s, account, destination) ==
    IF destination \notin DOMAIN s.led
    THEN Fail(s, "InvalidArgument")
    ELSE Done(s, [s.led EXCEPT ![destination].lamports =
                      View(s.led, destination).lamports + View(s.led, account).lamports],
              "close:lamports")
CloseResize(s, account) ==
    Done(s, [s.led EXCEPT ![account].len = 1,
                          ![account].rec = [ZeroRec EXCEPT !.seed =
                                              s.led[account].rec.seed % 256]],
         "close:resize")
CloseRelease(s, account) ==
    Done(s, [s.led EXCEPT ![account] = EmptyAccount], "close:release")

\* ProgramAccount::close stopping after the lamports have moved: the account
\* keeps its size and its owner.
ProgramAccountCloseKeepsData(s, account, destination) ==
    Then(CloseMarker(s, account), LAMBDA s1 : CloseLamports(s1, account, destination))

\* ProgramAccount::close moving the lamports before it writes the marker.
ProgramAccountCloseLamportsFirst(s, account, destination) ==
    Then(Then(Then(CloseLamports(s, account, destination),
                   LAMBDA s1 : CloseMarker(s1, account)),
              LAMBDA s2 : CloseResize(s2, account)),
         LAMBDA s3 : CloseRelease(s3, account))

ProgramAccountClose(s, account, destination) ==
    Then(Then(Then(CloseMarker(s, account),
                   LAMBDA s1 : CloseLamports(s1, account, destination)),
              LAMBDA s2 : CloseResize(s2, account)),
         LAMBDA s3 : CloseRelease(s3, account))

----
\* instructions/make.rs

\* The account checks of Make taking a list of nine accounts or more.
MakeAccountsTryFromAtLeast(led, signers, accounts) ==
    IF Len(accounts) < 9 THEN "NotEnoughAccountKeys"
    ELSE LET c1 == MintAccountCheck(View(led, accounts[3]))
             c2 == MintAccountCheck(View(led, accounts[4]))
             c3 == AssociatedTokenAccountCheck(led, accounts[5], accounts[1],
                                               accounts[3], accounts[8])
         IN IF accounts[1] \notin signers THEN "IllegalOwner"
            ELSE IF c1 # OK THEN c1
            ELSE IF c2 # OK THEN c2
            ELSE IF c3 # OK THEN c3
            ELSE IF accounts[6] # Ata(accounts[2], TokenID, accounts[3])
            THEN "InvalidAccountOwner"
            ELSE IF View(led, accounts[6]).len # 0 THEN "AccountAlreadyInitialized"
            ELSE OK

MakeAccountsTryFrom(led, signers, accounts) ==
    IF Len(accounts) # 9 THEN "NotEnoughAccountKeys"
    ELSE LET maker == accounts[1]
             escrow == accounts[2]
             mint_a == accounts[3]
             mint_b == accounts[4]
             maker_ata_a == accounts[5]
             vault == accounts[6]
             token_program == accounts[8]
             c1 == MintAccountCheck(View(led, mint_a))
             c2 == MintAccountCheck(View(led, mint_b))
             c3 == AssociatedTokenAccountCheck(led, maker_ata_a, maker, mint_a,
                                               token_program)
         IN IF maker \notin signers THEN "IllegalOwner"
            ELSE IF c1 # OK THEN c1
            ELSE IF c2 # OK THEN c2
            ELSE IF c3 # OK THEN c3
            ELSE IF vault # Ata(escrow, TokenID, mint_a) THEN "InvalidAccountOwner"
            ELSE IF View(led, vault).len # 0 THEN "AccountAlreadyInitialized"
            ELSE OK

\* The payload parser without the test of the amount.
MakeInstructionDataAnyAmount(data) ==
    IF Len(data) # 3 THEN "InvalidInstructionData" ELSE OK

\* The payload is three 64-bit words: seed, receive, amount.
MakeInstructionDataTryFrom(data) ==
    IF Len(data) # 3 THEN "InvalidInstructionData"
    ELSE IF data[3] = 0 THEN "InvalidInstructionData"
    ELSE OK

\* Make::try_from creating the escrow account at whatever address the caller
\* names, as if that address had signed.
MakeTryFromAnyAddress(s, signers, data, accounts) ==
    LET e1 == MakeAccountsTryFrom(s.led, signers, accounts)
        e2 == MakeInstructionDataTryFrom(data)
    IN IF e1 # OK THEN Fail(s, e1)
       ELSE IF e2 # OK THEN Fail(s, e2)
       ELSE Then(CreateAccountWithMinimumBalanceSigned(s, accounts[2], EscrowLEN, ID,
                                                       accounts[1],
                                                       signers \cup {accounts[2]},
                                                       "create:escrow"),
                 LAMBDA s1 : AssociatedTokenAccountInit(s1, accounts[6], accounts[3],
                                                        accounts[1], accounts[2],
                                                        accounts[8], signers,
                                                        "create:vault"))

MakeTryFrom(s, signers, data, accounts) ==
    LET e1 == MakeAccountsTryFrom(s.led, signers, accounts)
        e2 == MakeInstructionDataTryFrom(data)
        maker == accounts[1]
        escrow == accounts[2]
        mint_a == accounts[3]
        vault == accounts[6]
        token_program == accounts[8]
        found == FindProgramAddress(maker, data[1])
        signed == CreateProgramAddress(maker, data[1], found.bump)
        cpi == signers \cup (IF signed.err = OK THEN {signed.addr} ELSE {})
    IN IF e1 # OK THEN Fail(s, e1)
       ELSE IF e2 # OK THEN Fail(s, e2)
       ELSE Then(CreateAccountWithMinimumBalanceSigned(s, escrow, EscrowLEN, ID, maker,
                                                       cpi, "create:escrow"),
                 LAMBDA s1 : AssociatedTokenAccountInit(s1, vault, mint_a, maker, escrow,
                                                        token_program, signers,
                                                        "create:vault"))

\* Make::process with the payload words confused: it deposits `receive`
\* where the code deposits `amount`.
MakeProcessDepositsReceive(s, signers, data, accounts) ==
    LET maker == accounts[1]
        escrow == accounts[2]
        bump == FindProgramAddress(maker, data[1]).bump
        loaded == EscrowLoad(View(s.led, escrow))
    IN IF loaded.err # OK THEN Fail(s, loaded.err)
       ELSE Then(Done(s, [s.led EXCEPT ![escrow].rec =
                            EscrowSetInner(data[1], maker, accounts[3], accounts[4],
                                           data[2], bump)],
                      "write:escrow"),
                 LAMBDA s1 : TokenTransfer(s1, accounts[5], accounts[6], maker, data[2],
                                           signers, "transfer:deposit"))

\* Make::process handing the two mints to the setter in each other's place.
MakeProcessSwapsMints(s, signers, data, accounts) ==
    LET maker == accounts[1]
        escrow == accounts[2]
        bump == FindProgramAddress(maker, data[1]).bump
        loaded == EscrowLoad(View(s.led, escrow))
    IN IF loaded.err # OK THEN Fail(s, loaded.err)
       ELSE Then(Done(s, [s.led EXCEPT ![escrow].rec =
                            EscrowSetInner(data[1], maker, accounts[4], accounts[3],
                                           data[2], bump)],
                      "write:escrow"),
                 LAMBDA s1 : TokenTransfer(s1, accounts[5], accounts[6], maker, data[3],
                                           signers, "transfer:deposit"))

MakeProcess(s, signers, data, accounts) ==
    LET maker == accounts[1]
        escrow == accounts[2]
        mint_a == accounts[3]
        mint_b == accounts[4]
        maker_ata_a == accounts[5]
        vault == accounts[6]
        bump == FindProgramAddress(maker, data[1]).bump
        loaded == EscrowLoad(View(s.led, escrow))
    IN IF loaded.err # OK THEN Fail(s, loaded.err)
       ELSE Then(Done(s, [s.led EXCEPT ![escrow].rec =
                            EscrowSetInner(data[1], maker, mint_a, mint_b, data[2],
                                           bump)],
                      "write:escrow"),
                 LAMBDA s1 : TokenTransfer(s1, maker_ata_a, vault, maker, data[3],
                                           signers, "transfer:deposit"))

Make(led, signers, data, accounts) ==
    Then(MakeTryFrom(Start(led, accounts), signers, data, accounts),
         LAMBDA s1 : MakeProcess(s1, signers, data, accounts))

----
\* instructions/take.rs
TakeAccountsTryFrom(led, signers, accounts) ==
    IF Len(accounts) # 12 THEN "NotEnoughAccountKeys"
    ELSE LET taker == accounts[1]
             escrow == accounts[3]
             mint_a == accounts[4]
             mint_b == accounts[5]
             vault == accounts[6]
             taker_ata_b == accounts[8]
             token_program == accounts[11]
             c1 == SignerAccountCheck(signers, taker)
             c2 == ProgramAccountCheck(View(led, escrow))
             c3 == MintInterfaceCheck(View(led, mint_a))
             c4 == MintInterfaceCheck(View(led, mint_b))
             c5 == AssociatedTokenAccountCheck(led, taker_ata_b, taker, mint_b,
                                               token_program)
             c6 == AssociatedTokenAccountCheck(led, vault, escrow, mint_a,
                                               token_program)
         IN IF c1 # OK THEN c1
            ELSE IF c2 # OK THEN c2
            ELSE IF c3 # OK THEN c3
            ELSE IF c4 # OK THEN c4
            ELSE IF c5 # OK THEN c5
            ELSE c6

TakeTryFrom(s, signers, accounts) ==
    LET e1 == TakeAccountsTryFrom(s.led, signers, accounts)
        taker == accounts[1]
        maker == accounts[2]
        mint_a == accounts[4]
        mint_b == accounts[5]
        taker_ata_a == accounts[7]
        maker_ata_b == accounts[9]
        token_program == accounts[11]
    IN IF e1 # OK THEN Fail(s, e1)
       ELSE Then(AssociatedTokenAccountInitIfNeeded(s, taker_ata_a, mint_a, taker, taker,
                                                    token_program, signers,
                                                    "create:taker_ata_a"),
                 LAMBDA s1 : AssociatedTokenAccountInitIfNeeded(
                                 s1, maker_ata_b, mint_b, taker, maker, token_program,
                                 signers, "create:maker_ata_b"))

\* Take::process without the comparison of the re-derived address with the
\* escrow account's address.
TakeProcessUncompared(s, signers, accounts) ==
    LET taker == accounts[1]
        escrow == accounts[3]
        vault == accounts[6]
        loaded == EscrowLoad(View(s.led, escrow))
        escrow_key == CreateProgramAddress(accounts[2], loaded.rec.seed,
                                           loaded.rec.bump)
        cpi == signers \cup (IF escrow_key.err = OK THEN {escrow_key.addr} ELSE {})
    IN IF loaded.err # OK THEN Fail(s, loaded.err)
       ELSE IF escrow_key.err # OK THEN Fail(s, escrow_key.err)
       ELSE Then(Then(Then(TokenTransfer(s, vault, accounts[7], escrow,
                                         View(s.led, vault).amount, cpi,
                                         "transfer:vault"),
                           LAMBDA s1 : TokenCloseAccount(s1, vault, accounts[2], escrow,
                                                         cpi, "close:vault")),
                      LAMBDA s2 : TokenTransfer(s2, accounts[8], accounts[9], taker,
                                                loaded.rec.receive, signers,
                                                "transfer:payment")),
                 LAMBDA s3 : ProgramAccountClose(s3, escrow, taker))

TakeProcess(s, signers, accounts) ==
    LET taker == accounts[1]
        maker == accounts[2]
        escrow == accounts[3]
        vault == accounts[6]
        taker_ata_a == accounts[7]
        taker_ata_b == accounts[8]
        maker_ata_b == accounts[9]
        loaded == EscrowLoad(View(s.led, escrow))
        escrow_key == CreateProgramAddress(maker, loaded.rec.seed, loaded.rec.bump)
        cpi == signers \cup (IF escrow_key.err = OK THEN {escrow_key.addr} ELSE {})
        amount == View(s.led, vault).amount
    IN IF loaded.err # OK THEN Fail(s, loaded.err)
       ELSE IF escrow_key.err # OK THEN Fail(s, escrow_key.err)
       ELSE IF escrow_key.addr # escrow THEN Fail(s, "InvalidAccountOwner")
       ELSE IF TokenAccountCheck(View(s.led, vault)) # OK
       THEN Fail(s, "InvalidAccountData")
       ELSE Then(Then(Then(TokenTransfer(s, vault, taker_ata_a, escrow, amount, cpi,
                                         "transfer:vault"),
                           LAMBDA s1 : TokenCloseAccount(s1, vault, maker, escrow, cpi,
                                                         "close:vault")),
                      LAMBDA s2 : TokenTransfer(s2, taker_ata_b, maker_ata_b, taker,
                                                loaded.rec.receive, signers,
                                                "transfer:payment")),
                 LAMBDA s3 : ProgramAccountClose(s3, escrow, taker))

Take(led, signers, accounts) ==
    Then(TakeTryFrom(Start(led, accounts), signers, accounts),
         LAMBDA s1 : TakeProcess(s1, signers, accounts))

----
\* instructions/refund.rs
RefundAccountsTryFrom(led, signers, accounts) ==
    IF Len(accounts) # 8 THEN "NotEnoughAccountKeys"
    ELSE LET maker == accounts[1]
             escrow == accounts[2]
             mint_a == accounts[3]
             vault == accounts[4]
             token_program == accounts[7]
             c1 == SignerAccountCheck(signers, maker)
             c2 == ProgramAccountCheck(View(led, escrow))
             c3 == MintInterfaceCheck(View(led, mint_a))
         IN IF c1 # OK THEN c1
            ELSE IF c2 # OK THEN c2
            ELSE IF c3 # OK THEN c3
            ELSE AssociatedTokenAccountCheck(led, vault, escrow, mint_a, token_program)

RefundTryFrom(s, signers, accounts) ==
    LET e1 == RefundAccountsTryFrom(s.led, signers, accounts)
        maker == accounts[1]
        mint_a == accounts[3]
        maker_ata_a == accounts[5]
        token_program == accounts[7]
    IN IF e1 # OK THEN Fail(s, e1)
       ELSE AssociatedTokenAccountInitIfNeeded(s, maker_ata_a, mint_a, maker, maker,
                                               token_program, signers,
                                               "create:maker_ata_a")

\* Refund::process returning after the vault is closed, the escrow account
\* left as it is.
RefundProcessKeepsEscrow(s, signers, accounts) ==
    LET maker == accounts[1]
        escrow == accounts[2]
        vault == accounts[4]
        loaded == EscrowLoad(View(s.led, escrow))
        signer == CreateProgramAddress(maker, loaded.rec.seed, loaded.rec.bump)
        cpi == signers \cup (IF signer.err = OK THEN {signer.addr} ELSE {})
    IN IF loaded.err # OK THEN Fail(s, loaded.err)
       ELSE IF TokenAccountCheck(View(s.led, vault)) # OK
       THEN Fail(s, "InvalidAccountData")
       ELSE IF signer.err # OK THEN Fail(s, "InvalidSeeds")
       ELSE Then(TokenTransfer(s, vault, accounts[5], escrow, View(s.led, vault).amount,
                               cpi, "transfer:vault"),
                 LAMBDA s1 : TokenCloseAccount(s1, vault, maker, escrow, cpi,
                                               "close:vault"))

RefundProcess(s, signers, accounts) ==
    LET maker == accounts[1]
        escrow == accounts[2]
        vault == accounts[4]
        maker_ata_a == accounts[5]
        loaded == EscrowLoad(View(s.led, escrow))
        signer == CreateProgramAddress(maker, loaded.rec.seed, loaded.rec.bump)
        cpi == signers \cup (IF signer.err = OK THEN {signer.addr} ELSE {})
        amount == View(s.led, vault).amount
    IN IF loaded.err # OK THEN Fail(s, loaded.err)
       ELSE IF TokenAccountCheck(View(s.led, vault)) # OK
       THEN Fail(s, "InvalidAccountData")
       ELSE IF signer.err # OK THEN Fail(s, "InvalidSeeds")
       ELSE Then(Then(TokenTransfer(s, vault, maker_ata_a, escrow, amount, cpi,
                                    "transfer:vault"),
                      LAMBDA s1 : TokenCloseAccount(s1, vault, maker, escrow, cpi,
                                                    "close:vault")),
                 LAMBDA s2 : ProgramAccountClose(s2, escrow, maker))

Refund(led, signers, accounts) ==
    Then(RefundTryFrom(Start(led, accounts), signers, accounts),
         LAMBDA s1 : RefundProcess(s1, signers, accounts))

----
\* lib.rs: the entrypoint routes on the first byte of the instruction data.
\* An instruction that returns an error commits nothing.
ProcessInstruction(led, signers, discriminator, data, accounts) ==
    IF discriminator = 0 THEN Make(led, signers, data, accounts)
    ELSE IF discriminator = 1 THEN Take(led, signers, accounts)
    ELSE IF discriminator = 2 THEN Refund(led, signers, accounts)
    ELSE Fail(Start(led, accounts), "InvalidInstructionData")

----
\* helpers.rs: init and init_if_needed of the four kinds that are created at
\* a fresh address.  The rent sysvar, decimals and the authorities of a mint
\* do not influence the outcome and are left out.

\* pinocchio_token InitializeMint2, a call of the classic token program: the
\* account must have the size of a mint and be the program's to write.
TokenInitializeMint2(s, mint, what) ==
    LET m == View(s.led, mint)
    IN IF TokenID \notin s.keys THEN Fail(s, "MissingAccount")
       ELSE IF m.len # MintLEN THEN Fail(s, "InvalidAccountData")
       ELSE IF m.owner # TokenID THEN Fail(s, "ExternalAccountDataModified")
       ELSE Done(s, s.led, what)

\* pinocchio_token InitializeAccount3, a call of the classic token program.
TokenInitializeAccount3(s, account, mint, owner, what) ==
    LET a == View(s.led, account)
        m == View(s.led, mint)
    IN IF TokenID \notin s.keys THEN Fail(s, "MissingAccount")
       ELSE IF a.len # TokenAccountLEN THEN Fail(s, "InvalidAccountData")
       ELSE IF m.owner # TokenID \/ m.len # MintLEN
       THEN Fail(s, "IncorrectProgramId")
       ELSE IF a.owner # TokenID THEN Fail(s, "ExternalAccountDataModified")
       ELSE Done(s, [s.led EXCEPT ![account].mint = mint, ![account].auth = owner],
                 what)

MintAccountInit(s, account, payer, signers, what) ==
    Then(SystemCreateAccount(s, payer, account, MinimumBalance(MintLEN), MintLEN,
                             TokenID, signers, what),
         LAMBDA s1 : TokenInitializeMint2(s1, account, "initialize"))

MintAccountInitIfNeeded(s, account, payer, signers, what) ==
    IF MintAccountCheck(View(s.led, account)) = OK THEN s
    ELSE MintAccountInit(s, account, payer, signers, what)

TokenAccountInit(s, account, mint, payer, owner, signers, what) ==
    Then(SystemCreateAccount(s, payer, account, MinimumBalance(TokenAccountLEN),
                             TokenAccountLEN, TokenID, signers, what),
         LAMBDA s1 : TokenInitializeAccount3(s1, account, mint, owner, "initialize"))

TokenAccountInitIfNeeded(s, account, mint, payer, owner, signers, what) ==
    IF TokenAccountCheck(View(s.led, account)) = OK THEN s
    ELSE TokenAccountInit(s, account, mint, payer, owner, signers, what)

Mint2022AccountInit(s, account, payer, signers, what) ==
    Then(SystemCreateAccount(s, payer, account, MinimumBalance(MintLEN), MintLEN,
                             TOKEN_2022_PROGRAM_ID, signers, what),
         LAMBDA s1 : TokenInitializeMint2(s1, account, "initialize"))

Mint2022AccountInitIfNeeded(s, account, payer, signers, what) ==
    IF Mint2022AccountCheck(View(s.led, account)) = OK THEN s
    ELSE Mint2022AccountInit(s, account, payer, signers, what)

TokenAccount2022AccountInit(s, account, mint, payer, owner, signers, what) ==
    Then(SystemCreateAccount(s, payer, account, MinimumBalance(TokenAccountLEN),
                             TokenAccountLEN, TOKEN_2022_PROGRAM_ID, signers, what),
         LAMBDA s1 : TokenInitializeAccount3(s1, account, mint, owner, "initialize"))

TokenAccount2022AccountInitIfNeeded(s, account, mint, payer, owner, signers, what) ==
    IF TokenAccount2022AccountCheck(View(s.led, account)) = OK THEN s
    ELSE TokenAccount2022AccountInit(s, account, mint, payer, owner, signers, what)

\* The accounts an init_if_needed call is tried on: a funded payer, a mint,
\* and the account under test at an address of its own.
ProbePayer == 11
ProbeMint == 21
ProbeAccount == 30
ProbeLedger(acc) ==
    [a \in {ProbePayer, ProbeMint, ProbeAccount} |->
        IF a = ProbePayer THEN WalletAccount(MinimumBalance(TokenAccountLEN))
        ELSE IF a = ProbeMint THEN MintRecord
        ELSE acc]

\* What two calls in a row returned, and whether any account changed.
InitOutcome(led, s1, s2) ==
    [first |-> s1.err, second |-> s2.err, calls |-> s2.log, same |-> s2.led = led]

InitIfNeededTwice(acc) ==
    LET led == ProbeLedger(acc)
        s == Start(led, <<ProbePayer, ProbeMint, ProbeAccount, SystemID, TokenID>>)
        signers == {ProbePayer, ProbeAccount}
        m1 == MintAccountInitIfNeeded(s, ProbeAccount, ProbePayer, signers, "create")
        t1 == TokenAccountInitIfNeeded(s, ProbeAccount, ProbeMint, ProbePayer,
                                       ProbePayer, signers, "create")
        n1 == Mint2022AccountInitIfNeeded(s, ProbeAccount, ProbePayer, signers, "create")
        u1 == TokenAccount2022AccountInitIfNeeded(s, ProbeAccount, ProbeMint, ProbePayer,
                                                  ProbePayer, signers, "create")
    IN [mint |-> InitOutcome(led, m1,
                    Then(m1, LAMBDA x : MintAccountInitIfNeeded(
                                 x, ProbeAccount, ProbePayer, signers, "create"))),
        token |-> InitOutcome(led, t1,
                    Then(t1, LAMBDA x : TokenAccountInitIfNeeded(
                                 x, ProbeAccount, ProbeMint, ProbePayer, ProbePayer,
                                 signers, "create"))),
        mint2022 |-> InitOutcome(led, n1,
                    Then(n1, LAMBDA x : Mint2022AccountInitIfNeeded(
                                 x, ProbeAccount, ProbePayer, signers, "create"))),
        token2022 |-> InitOutcome(led, u1,
                    Then(u1, LAMBDA x : TokenAccount2022AccountInitIfNeeded(
                                 x, ProbeAccount, ProbeMint, ProbePayer, ProbePayer,
                                 signers, "create")))]

----
\* The ledger before the program is first called: funded wallets, the two
\* mints, each wallet's holding of "its" mint, and any subset of the other
\* holdings, at most one of which someone has created beforehand (anyone can
\* create the associated holding of any address, a not yet existing escrow
\* included).
HomeMint(w) == IF w = 11 THEN 21 ELSE 22
Holding(wallet, mint, amount) ==
    [EmptyAccount EXCEPT !.owner = TokenID,
                         !.lamports = MinimumBalance(TokenAccountLEN),
                         !.len = TokenAccountLEN,
                         !.mint = mint, !.auth = wallet, !.amount = amount]
OptionalHoldings ==
    {Ata(w, TokenID, m) : w \in Wallets, m \in Mints} \
        {Ata(w, TokenID, HomeMint(w)) : w \in Wallets}
ForeignHoldings == {Ata(p, TokenID, m) : p \in Pdas, m \in Mints}

InitLedger(present) ==
    [a \in Addresses |->
        IF a \in Wallets THEN WalletAccount(20000000)
        ELSE IF a \in Mints THEN MintRecord
        ELSE IF \E w \in Wallets : a = Ata(w, TokenID, HomeMint(w))
        THEN Holding(CHOOSE w \in Wallets : a = Ata(w, TokenID, HomeMint(w)),
                     HomeMint(CHOOSE w \in Wallets : a = Ata(w, TokenID, HomeMint(w))),
                     MaxAmount)
        ELSE IF a \in present
        THEN Holding(CHOOSE o \in Wallets \cup Escrows :
                        \E m \in Mints : a = Ata(o, TokenID, m),
                     CHOOSE m \in Mints :
                        \E o \in Wallets \cup Escrows : a = Ata(o, TokenID, m),
                     0)
        ELSE EmptyAccount]

\* Every check contract of helpers.rs that looks at one account only.
CheckAll(acc) ==
    [acc |-> acc,
     system |-> SystemAccountCheck(acc),
     mint |-> MintAccountCheck(acc),
     token |-> TokenAccountCheck(acc),
     mint2022 |-> Mint2022AccountCheck(acc),
     token2022 |-> TokenAccount2022AccountCheck(acc),
     mintInterface |-> MintInterfaceCheck(acc),
     tokenInterface |-> TokenAccountInterfaceCheck(acc),
     program |-> ProgramAccountCheck(acc),
     init |-> InitIfNeededTwice(acc)]

Idle == [op |-> "none", err |-> OK, log |-> <<>>, signers |-> {},
         data |-> <<>>, accounts |-> <<>>]

Init ==
    /\ \E present \in SUBSET (OptionalHoldings \cup ForeignHoldings) :
          /\ Cardinality(present) <= 1
          /\ ledger = InitLedger(present)
    /\ pre = ledger
    /\ last = Idle
    /\ nOk = 0
    /\ closed = {}
    /\ deposit = [e \in Escrows |-> 0]
    /\ payouts = [e \in Escrows |-> 0]
    /\ written = [e \in Escrows |-> ZeroRec]
    /\ checked = CheckAll(EmptyAccount)

\* One transaction carries one instruction.  Submit runs it: `last` shows what
\* was called and how it ended, `pre` the ledger it ran on, and `ledger` what
\* it committed (nothing, when it returned an error).  After a transaction
\* that committed, EndTransaction makes the ledger ready for the next one; a
\* transaction that failed left the ledger as it was, ready already.
Ready == last = Idle /\ nOk < MaxOps

\* The escrow account a call names: slot 3 of Take, slot 2 of Make and Refund.
EscrowSlot(op, accounts) == IF op = "Take" THEN accounts[3] ELSE accounts[2]

\* Bookkeeping that the program does not keep: `closed` collects the escrow
\* addresses that a successful Take or Refund has decommissioned, `deposit`
\* remembers the amount of the latest successful Make at an address, and
\* `payouts` counts the successful Takes and Refunds since that Make;
\* `written` holds, for an escrow a successful Make has opened, the record as
\* that Make was given it: payload, accounts and the bump found, until the
\* transaction that decommissions the escrow has ended.

Submit(op, discriminator, signers, data, accounts) ==
    \E r \in {ProcessInstruction(ledger, signers, discriminator, data, accounts)} :
       /\ pre' = ledger
       /\ ledger' = IF r.err = OK THEN r.led ELSE ledger
       /\ last' = [op |-> op, err |-> r.err, log |-> r.log, signers |-> signers,
                   data |-> data, accounts |-> accounts]
       /\ nOk' = IF r.err = OK THEN nOk + 1 ELSE nOk
       /\ closed' = IF r.err = OK /\ op \in {"Take", "Refund"}
                    THEN closed \cup {EscrowSlot(op, accounts)}
                    ELSE closed
       /\ deposit' = IF r.err = OK /\ op = "Make"
                     THEN [deposit EXCEPT ![accounts[2]] = data[3]]
                     ELSE deposit
       /\ payouts' = IF r.err = OK /\ op = "Make"
                     THEN [payouts EXCEPT ![accounts[2]] = 0]
                     ELSE IF r.err = OK /\ op \in {"Take", "Refund"}
                     THEN [payouts EXCEPT ![EscrowSlot(op, accounts)] = @ + 1]
                     ELSE payouts
       /\ written' = IF r.err = OK /\ op = "Make"
                     THEN [written EXCEPT ![accounts[2]] =
                             [seed |-> data[1], maker |-> accounts[1],
                              mint_a |-> accounts[3], mint_b |-> accounts[4],
                              receive |-> data[2],
                              bump |-> FindProgramAddress(accounts[1], data[1]).bump]]
                     ELSE written
       /\ UNCHANGED checked

\* The inputs of a call.  The caller chooses the wallets, the escrow and the
\* mints freely and the payload from the bounded amounts; the remaining slots
\* are the addresses derived from that choice, or, in a variant, the same list
\* with one slot replaced by another existing kind of account, or with the
\* signature withheld, or with the last slot left out ("short"), with one
\* account more at the end ("long"), or with the system program a second time
\* in the last slot, where the derived list names the associated-token-account
\* program ("trailing").
MakeVariants == {"derived", "unsigned", "escrow", "escrow_keypair", "maker_ata_a",
                 "vault", "short", "long", "trailing"}
TakeVariants == {"derived", "unsigned", "cosigned", "vault", "vault_mint",
                 "taker_ata_a", "taker_ata_b", "maker_ata_b", "short", "long",
                 "trailing"}
RefundVariants == {"derived", "unsigned", "cosigned", "vault", "vault_mint",
                   "maker_ata_a", "short", "long", "trailing"}

Trailing(v) == IF v = "trailing" THEN SystemID ELSE AssociatedTokenID
Resized(v, list) ==
    IF v = "short" THEN SubSeq(list, 1, Len(list) - 1)
    ELSE IF v = "long" THEN Append(list, SystemID)
    ELSE list

\* Who signs the transaction: the wallet, unless its signature is withheld,
\* and with it the generated key pair where the variant says so (the key
\* pair signs only calls that name its address as the escrow).
Signers(v, wallet) ==
    IF v = "unsigned" THEN {}
    ELSE IF v \in {"escrow_keypair", "cosigned"} THEN {wallet, EscrowKeypair}
    ELSE {wallet}

Other(w) == CHOOSE x \in Wallets : x # w
OtherMint(m) == CHOOSE x \in Mints : x # m

MakeAccounts(v, maker, seed, mint_a, mint_b) ==
    LET escrow == IF v = "escrow" THEN Pda(Other(maker), seed)
                  ELSE IF v = "escrow_keypair" THEN EscrowKeypair
                  ELSE Pda(maker, seed)
    IN Resized(v,
         <<maker, escrow, mint_a, mint_b,
           Ata(IF v = "maker_ata_a" THEN Other(maker) ELSE maker, TokenID, mint_a),
           Ata(escrow, TokenID, IF v = "vault" THEN OtherMint(mint_a) ELSE mint_a),
           SystemID, TokenID, Trailing(v)>>)

TakeAccounts(v, taker, maker, escrow, mint_a, mint_b) ==
    Resized(v,
      <<taker, maker, escrow, mint_a, mint_b,
        IF v = "vault_mint" THEN mint_a
        ELSE Ata(IF v = "vault" THEN taker ELSE escrow, TokenID, mint_a),
        Ata(IF v = "taker_ata_a" THEN Other(taker) ELSE taker, TokenID, mint_a),
        Ata(IF v = "taker_ata_b" THEN Other(taker) ELSE taker, TokenID, mint_b),
        Ata(IF v = "maker_ata_b" THEN taker ELSE maker, TokenID, mint_b),
        SystemID, TokenID, Trailing(v)>>)

RefundAccounts(v, maker, escrow, mint_a) ==
    Resized(v,
      <<maker, escrow, mint_a,
        IF v = "vault_mint" THEN mint_a
        ELSE Ata(IF v = "vault" THEN maker ELSE escrow, TokenID, mint_a),
        Ata(IF v = "maker_ata_a" THEN Other(maker) ELSE maker, TokenID, mint_a),
        SystemID, TokenID, Trailing(v)>>)

MakeAct ==
    /\ Ready
    /\ \E v \in MakeVariants, maker \in Wallets, mint_a \in Mints, mint_b \in Mints,
          seed \in Seeds, receive \in 1..MaxAmount, amount \in Amounts :
          Submit("Make", 0, Signers(v, maker),
                 <<seed, receive, amount>>,
                 MakeAccounts(v, maker, seed, mint_a, mint_b))

TakeAct ==
    /\ Ready
    /\ \E v \in TakeVariants, taker \in Wallets, maker \in Wallets, escrow \in Escrows,
          mint_a \in Mints, mint_b \in Mints :
          /\ v = "cosigned" => escrow = EscrowKeypair
          /\ Submit("Take", 1, Signers(v, taker), <<>>,
                 TakeAccounts(v, taker, maker, escrow, mint_a, mint_b))

RefundAct ==
    /\ Ready
    /\ \E v \in RefundVariants, maker \in Wallets, escrow \in Escrows, mint_a \in Mints :
          /\ v = "cosigned" => escrow = EscrowKeypair
          /\ Submit("Refund", 2, Signers(v, maker), <<>>,
                 RefundAccounts(v, maker, escrow, mint_a))

\* Outside this program the owner of a holding account that holds no tokens
\* may close it with the token program; the program then meets the holding
\* as absent.
CloseHolding ==
    /\ Ready
    /\ \E w \in Wallets, m \in Mints :
          LET account == Ata(w, TokenID, m)
              r == TokenCloseAccount(Start(ledger, <<account, w, w, TokenID>>), account, w, w,
                                     {w}, "close:holding")
          IN /\ r.err = OK
             /\ pre' = ledger
             /\ ledger' = r.led
             /\ last' = [op |-> "CloseHolding", err |-> OK, log |-> r.log,
                         signers |-> {w}, data |-> <<>>, accounts |-> <<account, w, w>>]
             /\ nOk' = nOk + 1
             /\ UNCHANGED <<closed, deposit, payouts, written, checked>>

\* The check contracts are pure functions of the account they are given: they
\* are applied to every owner, data length and discriminator byte of interest,
\* whether or not the ledger holds such an account.
Owners == {SystemID, TokenID, TOKEN_2022_PROGRAM_ID, AssociatedTokenID, ID}
Lengths == {0, 1, MintLEN, EscrowLEN, TokenAccountLEN - 1, TokenAccountLEN,
            TokenAccountLEN + 1, TokenAccountLEN + 5}
Tags == 0..3

CheckAct ==
    /\ last = Idle
    /\ \E owner \in Owners, len \in Lengths :
          \E tag \in (IF len > TOKEN_2022_ACCOUNT_DISCRIMINATOR_OFFSET
                      THEN Tags ELSE {0}),
             at167 \in (IF len > 167 THEN Tags ELSE {0}) :
             checked' = CheckAll([EmptyAccount EXCEPT !.owner = owner, !.len = len,
                                                      !.tag = tag, !.at167 = at167])
    /\ last' = [Idle EXCEPT !.op = "Check"]
    /\ UNCHANGED <<ledger, pre, nOk, closed, deposit, payouts, written>>

EndTransaction ==
    /\ last # Idle /\ last.op # "Check" /\ last.err = OK
    /\ last' = Idle
    /\ pre' = ledger
    /\ written' = [e \in Escrows |-> IF ledger[e].owner = ID THEN written[e] ELSE ZeroRec]
    /\ UNCHANGED <<ledger, nOk, closed, deposit, payouts, checked>>

Next == MakeAct \/ TakeAct \/ RefundAct \/ CloseHolding \/ CheckAct \/ EndTransaction

Spec == Init /\ [][Next]_vars

----
\* What the last instruction was and how it ended.
MakeOk == last.op = "Make" /\ last.err = OK
TakeOk == last.op = "Take" /\ last.err = OK
RefundOk == last.op = "Refund" /\ last.err = OK

\* A holding account is decommissioned when the token program no longer
\* owns it; an escrow account when it is no longer a program-owned account
\* of the record's size.
Decommissioned(acc) == acc.owner # TokenID /\ acc.len = 0 /\ acc.amount = 0
Open(acc) == ProgramAccountCheck(acc) = OK

\* The number of accounts each instruction takes; the count is the first
\* thing each instruction tests.
AccountCount(op) == IF op = "Make" THEN 9 ELSE IF op = "Take" THEN 12 ELSE 8

\* C1: after every successful Make with amount > 0 the vault holds exactly
\* `amount`, the maker's mint-A holding has gone down by exactly `amount`,
\* the escrow record is (seed, maker, mint_a, mint_b, receive, canonical
\* bump) as given by the payload and the accounts, and no other token
\* balance has changed.
C1_MakePostcondition ==
    MakeOk =>
        LET maker == last.accounts[1]
            escrow == last.accounts[2]
            mint_a == last.accounts[3]
            mint_b == last.accounts[4]
            seed == last.data[1]
            receive == last.data[2]
            amount == last.data[3]
            holding == Ata(maker, TokenID, mint_a)
            vault == Ata(escrow, TokenID, mint_a)
        IN /\ amount > 0
           /\ last.accounts[6] = vault
           /\ ledger[vault].amount = amount
           /\ ledger[holding].amount = pre[holding].amount - amount
           /\ Open(ledger[escrow])
           /\ ledger[escrow].rec =
                 [seed |-> seed, maker |-> maker, mint_a |-> mint_a,
                  mint_b |-> mint_b, receive |-> receive,
                  bump |-> CanonBump(maker, seed)]
           /\ \A a \in Addresses \ {vault, holding} :
                 ledger[a].amount = pre[a].amount

\* A Make that deposits part of the maker's holding and asks for a different
\* amount in return.
C1_Witness ==
    /\ MakeOk
    /\ last.data[3] = 1 /\ last.data[2] = 2
    /\ pre[Ata(last.accounts[1], TokenID, last.accounts[3])].amount = 2
    /\ last.accounts[3] # last.accounts[4]

\* C2: every successful Take on an open escrow recording maker M, mint_b B
\* and receive r, by a taker other than M, leaves M's associated holding of
\* B exactly r larger and the taker's holding of B exactly r smaller,
\* whichever maker_ata_b account the taker supplied.  It is stated here for
\* the Takes that name the two recorded mints, of an escrow whose two mints
\* differ.
C2_TakePaysMaker ==
    (TakeOk /\ Open(pre[last.accounts[3]])) =>
        LET taker == last.accounts[1]
            rec == pre[last.accounts[3]].rec
            makerB == Ata(rec.maker, TokenID, rec.mint_b)
            takerB == Ata(taker, TokenID, rec.mint_b)
        IN (/\ taker # rec.maker
            /\ rec.mint_a # rec.mint_b
            /\ last.accounts[4] = rec.mint_a
            /\ last.accounts[5] = rec.mint_b) =>
              /\ ledger[makerB].amount = pre[makerB].amount + rec.receive
              /\ ledger[takerB].amount = pre[takerB].amount - rec.receive

\* C3: every successful Take adds to the taker's mint-A holding exactly what
\* the vault held before, leaves the vault with no tokens and decommissioned,
\* and decommissions the escrow account; a Take that fails leaves none of
\* these effects.  The accounts are the ones the Take was given.
C3_TakeDrainsVault ==
    /\ TakeOk =>
          LET escrow == last.accounts[3]
              vault == last.accounts[6]
              taker_ata_a == last.accounts[7]
          IN /\ pre[escrow].rec.mint_a # pre[escrow].rec.mint_b
                    => ledger[taker_ata_a].amount =
                          pre[taker_ata_a].amount + pre[vault].amount
             /\ ledger[vault].amount = 0
             /\ Decommissioned(ledger[vault])
             /\ ~Open(ledger[escrow])
    /\ (last.op = "Take" /\ last.err # OK) => ledger = pre

\* C4: every successful Refund on an open escrow adds to the maker's mint-A
\* holding exactly what the vault held before, so that the maker has the
\* deposit back, leaves the vault with no tokens and decommissioned, and
\* decommissions the escrow account; no balance of mint B changes.
C4_RefundReturnsDeposit ==
    (RefundOk /\ Open(pre[last.accounts[2]])) =>
        LET escrow == last.accounts[2]
            vault == last.accounts[4]
            maker_ata_a == last.accounts[5]
            rec == pre[escrow].rec
            makerA == Ata(rec.maker, TokenID, rec.mint_a)
        IN /\ ledger[maker_ata_a].amount = pre[maker_ata_a].amount + pre[vault].amount
           /\ ledger[makerA].amount >= pre[makerA].amount + deposit[escrow]
           /\ ledger[vault].amount = 0
           /\ Decommissioned(ledger[vault])
           /\ ~Open(ledger[escrow])
           /\ rec.mint_a # rec.mint_b =>
                 \A a \in Addresses :
                    pre[a].owner = TokenID /\ pre[a].mint = rec.mint_b
                        => ledger[a].amount = pre[a].amount

\* C5: a Refund succeeds only when the account in the maker slot has signed
\* and is the maker recorded in the escrow.  A Refund whose signer check
\* passes fails with InvalidAccountOwner when the escrow account is not owned
\* by the program and with InvalidAccountData when its data length is not
\* the record's; the program-account check gives these answers on every
\* account.  A Refund that fails changes no balance and no account.
C5_RefundOnlyByMaker ==
    /\ RefundOk =>
          /\ last.accounts[1] \in last.signers
          /\ last.accounts[1] = pre[last.accounts[2]].rec.maker
    /\ (last.op = "Refund" /\ last.accounts[1] \in last.signers) =>
          LET escrow == pre[last.accounts[2]]
          IN /\ escrow.owner # ID => last.err = "InvalidAccountOwner"
             /\ (escrow.owner = ID /\ escrow.len # EscrowLEN)
                    => last.err = "InvalidAccountData"
    /\ checked.acc.owner # ID => checked.program = "InvalidAccountOwner"
    /\ (checked.acc.owner = ID /\ checked.acc.len # EscrowLEN)
           => checked.program = "InvalidAccountData"
    /\ (last.op = "Refund" /\ last.err # OK) => ledger = pre

\* C6: a Take whose account checks and on-demand creations pass fails with
\* InvalidAccountOwner, before any token transfer and with nothing changed,
\* whenever the address derived from (supplied maker, stored seed, stored
\* bump) is not the escrow account's address; a Take on an open escrow fails
\* whenever the derivation does not give the escrow's address; hence every
\* successful Take names the recorded maker in the maker slot.
C6_TakeRederivation ==
    /\ last.op = "Take" =>
          LET escrow == last.accounts[3]
              rec == pre[escrow].rec
              derived == CreateProgramAddress(last.accounts[2], rec.seed, rec.bump)
          IN /\ (/\ TakeTryFrom(Start(pre, last.accounts), last.signers, last.accounts).err = OK
                 /\ derived.err = OK
                 /\ derived.addr # escrow)
                => /\ last.err = "InvalidAccountOwner"
                   /\ \A i \in 1..Len(last.log) :
                         last.log[i] \notin {"transfer:vault", "transfer:payment"}
                   /\ ledger = pre
             /\ (Open(pre[escrow]) /\ (derived.err # OK \/ derived.addr # escrow))
                => (last.err # OK /\ ledger = pre)
    /\ TakeOk => last.accounts[2] = pre[last.accounts[3]].rec.maker

\* A Take on an open escrow that names another wallet as the maker, for which
\* the stored seed and bump derive an address, is refused by the comparison.
C6_Witness ==
    /\ last.op = "Take" /\ last.err = "InvalidAccountOwner"
    /\ Open(pre[last.accounts[3]])
    /\ last.accounts[2] # pre[last.accounts[3]].rec.maker
    /\ CreateProgramAddress(last.accounts[2], pre[last.accounts[3]].rec.seed,
                            pre[last.accounts[3]].rec.bump).err = OK
    /\ TakeTryFrom(Start(pre, last.accounts), last.signers, last.accounts).err = OK

\* C7: of the Takes and Refunds on an escrow opened by one successful Make
\* at most one succeeds: once one has, the escrow account no longer passes
\* the program-account check, and every Take or Refund that names an account
\* failing that check fails on it, before any call that changes state.
C7_AtMostOnePayout ==
    /\ \A e \in Escrows : payouts[e] <= 1
    /\ \A e \in Escrows : payouts[e] = 1 => ~Open(ledger[e])
    /\ (/\ last.op \in {"Take", "Refund"}
        /\ Len(last.accounts) = AccountCount(last.op)
        /\ last.accounts[1] \in last.signers
        /\ ~Open(pre[EscrowSlot(last.op, last.accounts)]))
       => /\ last.err = ProgramAccountCheck(pre[EscrowSlot(last.op, last.accounts)])
          /\ last.log = <<>>
          /\ ledger = pre

\* A Take or Refund on an escrow that has already been paid out, and fails.
C7_Witness ==
    /\ last.op \in {"Take", "Refund"}
    /\ last.accounts[1] \in last.signers
    /\ payouts[EscrowSlot(last.op, last.accounts)] = 1
    /\ deposit[EscrowSlot(last.op, last.accounts)] > 0
    /\ last.err = "InvalidAccountOwner"

\* C8, as the claim states it: an escrow address that a successful Take or
\* Refund has closed is never Open again.
C8_ClosedIsTerminal == \A e \in closed : ~Open(ledger[e])

\* C8, amended: a closed escrow address is Open again only after a later
\* successful Make, which is signed by its maker and creates the account
\* either at the address this maker and the seed derive or at an address that
\* has signed itself; until then no Take or Refund on it succeeds.
C8_ClosedUntilRemade ==
    /\ \A e \in closed :
          Open(ledger[e]) => payouts[e] = 0
    /\ \A e \in closed : ~Open(ledger[e]) => payouts[e] = 1
    /\ ((TakeOk \/ RefundOk) /\ EscrowSlot(last.op, last.accounts) \in closed)
          => Open(pre[EscrowSlot(last.op, last.accounts)])
    /\ (MakeOk /\ last.accounts[2] \in closed)
          => /\ last.accounts[1] \in last.signers
             /\ \/ last.accounts[2] = Pda(last.accounts[1], last.data[1])
                \/ last.accounts[2] \in last.signers

\* A successful Make at an address that a Take or Refund had closed.
C8_Witness ==
    /\ MakeOk
    /\ last.accounts[2] \in closed
    /\ ~Open(pre[last.accounts[2]])
    /\ Open(ledger[last.accounts[2]])

\* C9: when a Take or Refund has decommissioned an escrow, the vault at the
\* associated address of (escrow, token program, recorded mint_a) holds no
\* tokens and is decommissioned, whichever mint A account the caller named.
\* It is stated here for escrows whose two mints differ.
C9_VaultDrainedWhenClosed ==
    (TakeOk \/ RefundOk) =>
        LET escrow == EscrowSlot(last.op, last.accounts)
            vault == Ata(escrow, TokenID, pre[escrow].rec.mint_a)
        IN pre[escrow].rec.mint_a # pre[escrow].rec.mint_b =>
              /\ ledger[vault].amount = 0
              /\ Decommissioned(ledger[vault])

\* C10: on an open escrow, a Take signed by a taker whose mint-B holding has
\* at least `receive`, with the recorded maker and mints, the canonical vault
\* and the canonical holdings of taker and maker, succeeds, whether or not
\* the maker's mint-B holding and the taker's mint-A holding exist already.
\* It is stated here for escrows whose two mints differ.
C10_HonestTakeSucceeds ==
    last.op = "Take" =>
        LET taker == last.accounts[1]
            escrow == last.accounts[3]
            rec == pre[escrow].rec
            takerB == pre[Ata(taker, TokenID, rec.mint_b)]
        IN (/\ Open(pre[escrow])
            /\ rec.mint_a # rec.mint_b
            /\ taker \in last.signers
            /\ last.accounts = TakeAccounts("derived", taker, rec.maker, escrow,
                                            rec.mint_a, rec.mint_b)
            /\ TokenAccountCheck(takerB) = OK
            /\ takerB.amount >= rec.receive)
           => last.err = OK

\* C11: on an open escrow, a Refund signed by the recorded maker with the
\* recorded mint A, the canonical vault and the maker's canonical mint-A
\* holding succeeds, whether that holding exists or not and whatever calls
\* were made before.
C11_MakerCanRefund ==
    last.op = "Refund" =>
        LET escrow == last.accounts[2]
            rec == pre[escrow].rec
        IN (/\ Open(pre[escrow])
            /\ rec.maker \in last.signers
            /\ last.accounts = RefundAccounts("derived", rec.maker, escrow, rec.mint_a))
           => last.err = OK

\* C12: a Make whose payload has amount = 0 fails before the escrow account
\* or the vault is created and before any record or balance is written, so
\* that every account is afterwards as it was; it fails with
\* InvalidInstructionData when its account checks, which run first, pass.
C12_MakeZeroAmount ==
    (last.op = "Make" /\ last.data[3] = 0) =>
        /\ last.err # OK
        /\ last.log = <<>>
        /\ ledger = pre
        /\ MakeAccountsTryFrom(pre, last.signers, last.accounts) = OK
              => last.err = "InvalidInstructionData"

\* A signed Make with the derived accounts, a funded holding and amount = 0.
C12_Witness ==
    /\ last.op = "Make" /\ last.data[3] = 0
    /\ last.err = "InvalidInstructionData"
    /\ MakeAccountsTryFrom(pre, last.signers, last.accounts) = OK
    /\ pre[last.accounts[5]].amount > 0
    /\ ledger[last.accounts[2]] = EmptyAccount
    /\ ledger[last.accounts[6]] = EmptyAccount

\* C13: init_if_needed of every kind, called on an account that already
\* passes the kind's check for the intended owner and mint, returns success
\* without creating or initialising anything, and so does a second call; for
\* the associated holding this holds whoever pays, as in Take, where the
\* taker pays for the maker's mint-B holding.
C13_InitIfNeededIdempotent ==
    /\ last.op = "Check" =>
          LET untouched == [first |-> OK, second |-> OK, calls |-> <<>>, same |-> TRUE]
          IN /\ checked.mint = OK => checked.init.mint = untouched
             /\ checked.token = OK => checked.init.token = untouched
             /\ checked.mint2022 = OK => checked.init.mint2022 = untouched
             /\ checked.token2022 = OK => checked.init.token2022 = untouched
    /\ (last.op = "Take"
        /\ TakeAccountsTryFrom(pre, last.signers, last.accounts) = OK) =>
          LET taker == last.accounts[1]
              maker == last.accounts[2]
              mint_a == last.accounts[4]
              mint_b == last.accounts[5]
              taker_ata_a == last.accounts[7]
              maker_ata_b == last.accounts[9]
              token_program == last.accounts[11]
              s1 == AssociatedTokenAccountInitIfNeeded(
                        Start(pre, last.accounts), taker_ata_a, mint_a, taker, taker, token_program,
                        last.signers, "create:taker_ata_a")
              s2 == AssociatedTokenAccountInitIfNeeded(
                        s1, maker_ata_b, mint_b, taker, maker, token_program,
                        last.signers, "create:maker_ata_b")
          IN /\ AssociatedTokenAccountCheck(pre, taker_ata_a, taker, mint_a,
                                            token_program) = OK
                   => s1 = Start(pre, last.accounts)
             /\ (/\ s1.err = OK
                 /\ AssociatedTokenAccountCheck(s1.led, maker_ata_b, maker, mint_b,
                                                token_program) = OK)
                   => /\ s2 = s1
                      /\ AssociatedTokenAccountInitIfNeeded(
                             s2, maker_ata_b, mint_b, taker, maker, token_program,
                             last.signers, "create:maker_ata_b") = s2

\* The checks of Take and Refund that run before the check of the vault, and
\* the slots the vault's address is derived from.
BeforeVaultCheck ==
    IF last.op = "Take"
    THEN /\ SignerAccountCheck(last.signers, last.accounts[1]) = OK
         /\ ProgramAccountCheck(pre[last.accounts[3]]) = OK
         /\ MintInterfaceCheck(pre[last.accounts[4]]) = OK
         /\ MintInterfaceCheck(pre[last.accounts[5]]) = OK
         /\ AssociatedTokenAccountCheck(pre, last.accounts[8], last.accounts[1],
                                        last.accounts[5], last.accounts[11]) = OK
    ELSE /\ SignerAccountCheck(last.signers, last.accounts[1]) = OK
         /\ ProgramAccountCheck(pre[last.accounts[2]]) = OK
         /\ MintInterfaceCheck(pre[last.accounts[3]]) = OK
VaultSlot == IF last.op = "Take" THEN last.accounts[6] ELSE last.accounts[4]
VaultMismatch ==
    /\ last.op \in {"Take", "Refund"}
    /\ VaultSlot # (IF last.op = "Take"
                    THEN Ata(last.accounts[3], last.accounts[11], last.accounts[4])
                    ELSE Ata(last.accounts[2], last.accounts[7], last.accounts[3]))

\* C14 as stated: a Take or Refund whose vault is not the associated address
\* of (supplied escrow, supplied token program, supplied mint A) fails, with
\* an ownership error or, when the vault passes the holding-account check,
\* the address error InvalidArgument; no account changes.
C14_VaultMismatchAddressOrOwner ==
    VaultMismatch =>
        /\ last.err # OK /\ last.log = <<>> /\ ledger = pre
        /\ BeforeVaultCheck =>
              /\ last.err \in {"IllegalOwner", "InvalidArgument"}
              /\ TokenAccountCheck(pre[VaultSlot]) = OK => last.err = "InvalidArgument"

\* C14 amended: such a Take or Refund fails with the error of the
\* holding-account check (IllegalOwner, or InvalidAccountData for an account
\* of the token program that has not the size of a holding) or, when the
\* vault passes that check, with InvalidArgument; no account changes.
C14_VaultMismatchFails ==
    VaultMismatch =>
        /\ last.err # OK /\ last.log = <<>> /\ ledger = pre
        /\ BeforeVaultCheck =>
              /\ last.err \in {"IllegalOwner", "InvalidAccountData", "InvalidArgument"}
              /\ last.err = TokenAccountCheck(pre[VaultSlot])
                    \/ (/\ TokenAccountCheck(pre[VaultSlot]) = OK
                        /\ last.err = "InvalidArgument")

C14_Witness ==
    /\ VaultMismatch /\ BeforeVaultCheck
    /\ last.op = "Take"
    /\ TokenAccountCheck(pre[VaultSlot]) = OK
    /\ pre[VaultSlot].amount > 0
    /\ last.err = "InvalidArgument"
    /\ ledger = pre

\* C15: from the Make that opens an escrow to the Take or Refund that
\* decommissions it the record is the one that Make was given (seed, maker,
\* mint_a, mint_b, receive, bump); Take and Refund read that record, write
\* nothing to it and leave every other escrow alone; a successful one leaves
\* the account decommissioned; a failed call changes nothing.
C15_RecordUnchangedWhileOpen ==
    /\ \A e \in Escrows : Open(ledger[e]) => ledger[e].rec = written[e]
    /\ last.op \in {"Take", "Refund"} =>
          LET escrow == EscrowSlot(last.op, last.accounts)
          IN /\ \A i \in DOMAIN last.log : last.log[i] # "write:escrow"
             /\ last.err = OK =>
                   /\ Open(pre[escrow])
                   /\ pre[escrow].rec = written[escrow]
                   /\ ~Open(ledger[escrow])
                   /\ ledger[escrow].rec = ZeroRec
             /\ \A e \in Escrows \ {escrow} : ledger[e] = pre[e]
    /\ (last.op \in {"Make", "Take", "Refund"} /\ last.err # OK) =>
          \A e \in Escrows : ledger[e] = pre[e]

\* A Take that closes an escrow opened two instructions earlier, another
\* escrow having been opened in between and still open.
C15_Witness ==
    /\ TakeOk
    /\ nOk = 3
    /\ pre[last.accounts[3]].rec = written[last.accounts[3]]
    /\ written[last.accounts[3]].receive = 2
    /\ written[last.accounts[3]].mint_a # written[last.accounts[3]].mint_b
    /\ \E e \in Escrows \ {last.accounts[3]} :
          Open(ledger[e]) /\ ledger[e].rec = written[e]

\* The sum of the balances (lamports) of a set of accounts.
RECURSIVE SumLamports(_, _)
SumLamports(led, as) ==
    IF as = {} THEN 0
    ELSE LET a == CHOOSE x \in as : TRUE
         IN led[a].lamports + SumLamports(led, as \ {a})
TotalLamports(led) == SumLamports(led, DOMAIN led)

\* What a Take or Refund paid for the holding accounts it created.
CreationCost ==
    MinimumBalance(TokenAccountLEN) *
        Cardinality({i \in DOMAIN last.log :
                        last.log[i] \in {"create:taker_ata_a", "create:maker_ata_b",
                                         "create:maker_ata_a"}})

C17_ChecksBeforeMutation ==
    /\ (last.op = "Make"
        /\ (\/ MakeAccountsTryFrom(pre, last.signers, last.accounts) # OK
            \/ MakeInstructionDataTryFrom(last.data) # OK))
          => (last.err # OK /\ last.log = <<>>)
    /\ (last.op = "Refund"
        /\ RefundAccountsTryFrom(pre, last.signers, last.accounts) # OK)
          => (last.err # OK /\ last.log = <<>>)
    /\ last.op = "Take" =>
          LET escrow == last.accounts[3]
              rec == pre[escrow].rec
              derived == CreateProgramAddress(last.accounts[2], rec.seed, rec.bump)
          IN /\ TakeAccountsTryFrom(pre, last.signers, last.accounts) # OK
                   => (last.err # OK /\ last.log = <<>>)
             /\ (/\ TakeTryFrom(Start(pre, last.accounts), last.signers, last.accounts).err = OK
                 /\ (derived.err # OK \/ derived.addr # escrow))
                   => (last.err # OK /\ last.log = <<>>)

\* C18: every program-owned account that holds an escrow record lies at the
\* address derived from ("escrow", recorded maker, recorded seed) under the
\* program id, and the recorded bump is the canonical bump of that derivation.
C18_OpenEscrowAtDerivedAddress ==
    \A e \in Escrows :
        Open(ledger[e]) =>
            LET found == FindProgramAddress(ledger[e].rec.maker, ledger[e].rec.seed)
            IN e = found.addr /\ ledger[e].rec.bump = found.bump

\* C19: a Make that names an escrow account which is Open fails; the record,
\* the vault and every balance stay as they were; when the list has nine
\* accounts, the maker has signed,
\* the mints and the maker's holding pass their checks and the vault named is
\* the associated address of (escrow, mint A) and holds data, the error is
\* AccountAlreadyInitialized.
C19_MakeOnOpenEscrow ==
    (last.op = "Make" /\ Open(pre[last.accounts[2]])) =>
        LET maker == last.accounts[1]
            escrow == last.accounts[2]
            mint_a == last.accounts[3]
            mint_b == last.accounts[4]
            vault == last.accounts[6]
        IN /\ last.err # OK
           /\ ledger = pre
           /\ (/\ Len(last.accounts) = AccountCount("Make")
               /\ maker \in last.signers
               /\ MintAccountCheck(pre[mint_a]) = OK
               /\ MintAccountCheck(pre[mint_b]) = OK
               /\ AssociatedTokenAccountCheck(pre, last.accounts[5], maker, mint_a,
                                              last.accounts[8]) = OK
               /\ vault = Ata(escrow, TokenID, mint_a)
               /\ pre[vault].len # 0)
                 => last.err = "AccountAlreadyInitialized"

\* The maker of an open escrow repeats the Make with the same seed and mint A
\* but other terms, and has the tokens for a second deposit.
C19_Witness ==
    /\ last.op = "Make" /\ last.err = "AccountAlreadyInitialized"
    /\ Open(pre[last.accounts[2]])
    /\ last.accounts[2] = Pda(last.accounts[1], last.data[1])
    /\ last.accounts[1] = pre[last.accounts[2]].rec.maker
    /\ last.accounts[3] = pre[last.accounts[2]].rec.mint_a
    /\ last.accounts[4] # pre[last.accounts[2]].rec.mint_b
    /\ last.data[2] # pre[last.accounts[2]].rec.receive
    /\ last.data[3] > 0
    /\ pre[last.accounts[5]].amount >= last.data[3]
    /\ ledger = pre

\* The steps of a decommission, in the order the claim gives.
CloseSteps == <<"close:marker", "close:lamports", "close:resize", "close:release">>

\* C20: the decommission of an escrow account writes the marker, credits the
\* destination, shrinks the data and releases the account, in this order;
\* afterwards the account has no balance and is not the program's, the
\* destination has gained exactly the balance the account had, no other
\* account has changed, and the program-account check refuses the account.
\* The first part looks at the Takes and Refunds made, the second at a
\* decommission of each open escrow of each committed ledger to each wallet.
C20_CloseOrder ==
    /\ (TakeOk \/ RefundOk) =>
          LET escrow == EscrowSlot(last.op, last.accounts)
              n == Len(last.log)
          IN /\ n >= 4
             /\ SubSeq(last.log, n - 3, n) = CloseSteps
             /\ \A i \in 1..(n - 4) : last.log[i] \notin {CloseSteps[k] : k \in 1..4}
             /\ ledger[escrow].lamports = 0
             /\ ledger[escrow].owner # ID
             /\ ProgramAccountCheck(ledger[escrow]) # OK
    /\ \A e \in Escrows, d \in Wallets :
          (last = Idle /\ Open(ledger[e])) =>
             \E r \in {ProgramAccountClose(Start(ledger, <<e, d>>), e, d)} :
                /\ r.err = OK
                /\ r.log = CloseSteps
                /\ r.led[e].lamports = 0
                /\ r.led[e].owner # ID
                /\ r.led[d].lamports = ledger[d].lamports + ledger[e].lamports
                /\ ProgramAccountCheck(r.led[e]) # OK
                /\ \A a \in Addresses \ {e, d} : r.led[a] = ledger[a]

\* A Refund that finds the maker's holding in place: it empties and closes
\* the vault and then decommissions the escrow account, whose balance and the
\* vault's reach the maker.
C20_Witness ==
    /\ RefundOk
    /\ last.log = <<"transfer:vault", "close:vault">> \o CloseSteps
    /\ pre[last.accounts[2]].lamports = MinimumBalance(EscrowLEN)
    /\ ledger[last.accounts[2]].lamports = 0
    /\ ledger[last.accounts[1]].lamports =
          pre[last.accounts[1]].lamports + pre[last.accounts[4]].lamports
              + pre[last.accounts[2]].lamports

\* C21: on every account the mint interface check returns what the classic
\* mint check returns when the classic token program owns the account, what
\* the extended-standard mint check returns when the extended token program
\* owns it, and IllegalOwner when neither does; the holding interface check
\* relates in the same way to the two holding checks.  An account of the
\* extended program that has exactly the classic record size is one of these
\* cases.
C21_InterfaceDispatch ==
    last.op = "Check" =>
        LET owner == checked.acc.owner
        IN /\ checked.mintInterface =
                 (IF owner = TokenID THEN checked.mint
                  ELSE IF owner = TOKEN_2022_PROGRAM_ID THEN checked.mint2022
                  ELSE "IllegalOwner")
           /\ checked.tokenInterface =
                 (IF owner = TokenID THEN checked.token
                  ELSE IF owner = TOKEN_2022_PROGRAM_ID THEN checked.token2022
                  ELSE "IllegalOwner")

\* What an extended-standard check is to return on the probed account when
\* the tag byte is read at `offset`, where `byte` is the data byte found
\* there.
ExtendedExpected(size, offset, byte, wanted) ==
    IF checked.acc.owner # TOKEN_2022_PROGRAM_ID THEN "IllegalOwner"
    ELSE IF checked.acc.len = size \/ (checked.acc.len > offset /\ byte = wanted)
    THEN OK
    ELSE "InvalidAccountData"

\* C22 as stated: on an account of the extended token program the extended
\* mint (holding) check succeeds exactly when the data length is the classic
\* mint (holding) size or the data contains the byte at offset 167 and that
\* byte is the mint tag 1 (holding tag 2); every other length or tag gives
\* InvalidAccountData, every other owner IllegalOwner.
C22_ExtendedCheckAt167 ==
    last.op = "Check" =>
        /\ checked.mint2022 =
              ExtendedExpected(MintLEN, 167, checked.acc.at167,
                               TOKEN2022_MINT_DISCRIMINATOR)
        /\ checked.token2022 =
              ExtendedExpected(TokenAccountLEN, 167, checked.acc.at167,
                               TOKEN_2022_TOKEN_ACCOUNT_DISCRIMINATOR)

\* C22 amended: the same with the tag byte at offset 165, the first byte after
\* the classic holding record.
C22_ExtendedCheckAt165 ==
    last.op = "Check" =>
        /\ checked.mint2022 =
              ExtendedExpected(MintLEN, TOKEN_2022_ACCOUNT_DISCRIMINATOR_OFFSET,
                               checked.acc.tag, TOKEN2022_MINT_DISCRIMINATOR)
        /\ checked.token2022 =
              ExtendedExpected(TokenAccountLEN, TOKEN_2022_ACCOUNT_DISCRIMINATOR_OFFSET,
                               checked.acc.tag, TOKEN_2022_TOKEN_ACCOUNT_DISCRIMINATOR)

\* An extended mint of 166 bytes, too short to have a byte at offset 167,
\* passes on its tag at offset 165.
C22_Witness ==
    /\ last.op = "Check"
    /\ checked.acc.owner = TOKEN_2022_PROGRAM_ID
    /\ checked.acc.len = TokenAccountLEN + 1
    /\ checked.acc.tag = TOKEN2022_MINT_DISCRIMINATOR
    /\ checked.mint2022 = OK
    /\ checked.token2022 = "InvalidAccountData"

\* The slot of the account that has to sign: the maker of Make and Refund,
\* the taker of Take.
RequiredSigner == last.accounts[1]

\* C23: a Make, Take or Refund whose required signer (the maker of Make and
\* Refund, the taker of Take) has not signed the transaction fails with
\* MissingRequiredSignature and changes no state.
C23_UnsignedFailsMissingSignature ==
    (/\ last.op \in {"Make", "Take", "Refund"}
     /\ Len(last.accounts) = AccountCount(last.op)
     /\ RequiredSigner \notin last.signers)
        => /\ last.err = "MissingRequiredSignature"
           /\ last.log = <<>>
           /\ ledger = pre

\* The last instruction run again on the ledger it ran on, with another
\* account in the last slot of its list; and whether that run ends as the
\* last instruction ended: the same result, the same calls, the same ledger.
Discriminator(op) == IF op = "Make" THEN 0 ELSE IF op = "Take" THEN 1 ELSE 2
Rerun(trailing) ==
    ProcessInstruction(pre, last.signers, Discriminator(last.op), last.data,
                       [last.accounts EXCEPT ![Len(last.accounts)] = trailing])
SameOutcome(r) ==
    /\ r.err = last.err
    /\ r.log = last.log
    /\ ledger = (IF r.err = OK THEN r.led ELSE pre)
TrailingAccounts == {AssociatedTokenID, SystemID, 12}
WrongCountFails ==
    (last.op \in {"Make", "Take", "Refund"}
     /\ Len(last.accounts) # AccountCount(last.op))
        => /\ last.err = "NotEnoughAccountKeys"
           /\ last.log = <<>>
           /\ ledger = pre

\* C24 as stated: Make takes exactly 9 accounts, Take 12 and Refund 8, a list
\* of any other length fails with NotEnoughAccountKeys and changes nothing;
\* and whichever account is in the last slot, the result and the resulting
\* state are the same.
C24_TrailingSlotIgnored ==
    /\ WrongCountFails
    /\ (last.op \in {"Make", "Take", "Refund"}
        /\ Len(last.accounts) = AccountCount(last.op))
          => \A t \in TrailingAccounts : \A r \in {Rerun(t)} : SameOutcome(r)

\* C24 amended: the counts as stated; the program itself never looks at the
\* last slot, so any two accounts other than the associated-token-account
\* program give the same result and state there; with that program in the
\* slot the outcome is again the same, unless the run without it has failed
\* with MissingAccount, having changed nothing, at a call of that program,
\* as every Make does that would succeed otherwise.
C24_TrailingSlotOnlyNamesProgram ==
    /\ WrongCountFails
    /\ (/\ last.op \in {"Make", "Take", "Refund"}
        /\ Len(last.accounts) = AccountCount(last.op)
        /\ last.accounts[Len(last.accounts)] # AssociatedTokenID)
          => /\ \A t \in TrailingAccounts \ {AssociatedTokenID} :
                   \A r \in {Rerun(t)} : SameOutcome(r)
             /\ \A r \in {Rerun(AssociatedTokenID)} :
                   /\ SameOutcome(r) \/ (last.err = "MissingAccount" /\ ledger = pre)
                   /\ (last.op = "Make" /\ r.err = OK) => last.err = "MissingAccount"

\* A Refund with the system program in its last slot has succeeded: no
\* holding had to be created.
C24_Witness ==
    /\ RefundOk
    /\ Len(last.accounts) = 8
    /\ last.accounts[8] = SystemID
    /\ last.log = <<"transfer:vault", "close:vault", "close:marker",
                    "close:lamports", "close:resize", "close:release">>

\* The holding accounts of a mint, vaults among them, and the tokens they
\* hold together.
TokenHoldings(led, m) ==
    {a \in DOMAIN led : TokenAccountCheck(led[a]) = OK /\ led[a].mint = m}
RECURSIVE SumAmounts(_, _)
SumAmounts(led, as) ==
    IF as = {} THEN 0
    ELSE LET a == CHOOSE x \in as : TRUE
         IN led[a].amount + SumAmounts(led, as \ {a})
Supply(led, m) == SumAmounts(led, TokenHoldings(led, m))

RecordedVault(led, e) == Ata(e, TokenID, led[e].rec.mint_a)

\* C26: whenever an escrow is Open, its vault is a holding at the associated
\* address of (escrow, classic token program, recorded mint A) and holds at
\* least what the Make that opened the escrow deposited; and no Make, Take or
\* Refund, whoever calls it with whatever accounts, leaves an escrow Open with
\* less in its vault than before.
C26_OpenEscrowVaultFunded ==
    /\ \A e \in Escrows :
          Open(ledger[e]) =>
             /\ TokenAccountCheck(ledger[RecordedVault(ledger, e)]) = OK
             /\ ledger[RecordedVault(ledger, e)].mint = ledger[e].rec.mint_a
             /\ ledger[RecordedVault(ledger, e)].auth = e
             /\ ledger[RecordedVault(ledger, e)].amount >= deposit[e]
    /\ (last.op \in {"Make", "Take", "Refund"} /\ ledger # pre) =>
          \A e \in Escrows :
             (Open(pre[e]) /\ Open(ledger[e])) =>
                ledger[RecordedVault(pre, e)].amount >= pre[RecordedVault(pre, e)].amount

\* A Take or Refund has been paid out of one escrow while another escrow,
\* opened with a deposit, stays Open with its deposit in its vault.
C26_Witness ==
    /\ TakeOk \/ RefundOk
    /\ \E e \in Escrows \ {EscrowSlot(last.op, last.accounts)} :
          /\ Open(pre[e]) /\ Open(ledger[e])
          /\ deposit[e] > 0
          /\ ledger[RecordedVault(ledger, e)].amount = deposit[e]

====
